---- MODULE Spec2Model ----
(***************************************************************************)
(* CodeCanvas: the bubble-sort trace generator of                          *)
(* src/services/geminiService.ts (findLine, BubbleSortSimulator,           *)
(* generateExecutionTrace) as a state machine.                             *)
(*                                                                         *)
(* JavaScript objects live on a heap of cells so that aliasing between the *)
(* simulator's scope, the working array and the step snapshots is visible. *)
(* Text (the printed output) is a sequence of one-character strings.       *)
(***************************************************************************)
EXTENDS Integers, Sequences, FiniteSets

\* Longest array literal that is enumerated exhaustively.
MaxLen == 3

(***************************************************************************)
(* JavaScript values.  One record shape for all of them: t is the type     *)
(* tag, n the number (or the heap address of a reference), s the           *)
(* characters of a string.                                                 *)
(***************************************************************************)
Num(k) == [t |-> "num", n |-> k, s |-> <<>>]

Str(cs) == [t |-> "str", n |-> 0, s |-> cs]

Ref(a) == [t |-> "ref", n |-> a, s |-> <<>>]

Undefined == [t |-> "undef", n |-> 0, s |-> <<>>]

\* A key that an object does not have.
Absent == [t |-> "absent", n |-> 0, s |-> <<>>]

\* An identifier token of an array literal (not a value: it must be resolved).
Ident(cs) == [t |-> "id", n |-> 0, s |-> cs]

\* The element text 'new Set([12, -1])': an object that can be iterated and
\* has no length.
NewSet == [t |-> "set", n |-> 0, s |-> <<>>]

SetElems == <<Num(12), Num(-1)>>

\* The names the simulator's scope can hold: the array's name and n, i, j, sortedArray.
ArrNames == {"myArray", "arr", "n"}

AllNames == ArrNames \cup {"n", "i", "j", "sortedArray"}

\* Key order of the scope object (insertion order: array, n, i, j, sortedArray).
NameOrder == <<"myArray", "arr", "n", "i", "j", "sortedArray">>

EmptyFields == [x \in AllNames |-> Absent]

MapCell(f) == [kind |-> "map", fields |-> f, elems |-> <<>>]

ArrCell(e) == [kind |-> "arr", fields |-> EmptyFields, elems |-> e]

SetCell(e) == [kind |-> "set", fields |-> EmptyFields, elems |-> e]

(***************************************************************************)
(* Source text.  A source is its list of lines; a line is the set of the   *)
(* fragments the simulator searches for that occur in it.  A declaration   *)
(* fragment is a statement '<let|var|const> <name> = [<elements>]' with    *)
(* the text the regular expression's second group captures.                *)
(***************************************************************************)
NoExpr == [bracket |-> FALSE, elems |-> <<>>, idx |-> -1]

\* The text '[e1, e2, ...]' (idx = -1) or '[e1, e2, ...][idx]'.
Literal(es, k) == [bracket |-> TRUE, elems |-> es, idx |-> k]

Tok(str) == [f |-> "tok", s |-> str, e |-> NoExpr]

\* The text '[<name>[j]' that run() searches for the swap statement.
SwapLhs(name) == [f |-> "swapLhs", s |-> name, e |-> NoExpr]

Decl(name, expr) == [f |-> "decl", s |-> name, e |-> expr]

\* defaultCode.javascript with the array statement 'let <name> = <expr>;'.
JSCode(name, expr) ==
    << {Tok("bubbleSort")},
       {Tok("n ="), Tok("arr.length")},
       {Tok("for (let i")},
       {Tok("for (let j")},
       {Tok("if (arr[j]")},
       {SwapLhs("arr")},
       {}, {}, {}, {}, {}, {},
       {Decl(name, expr)},
       {Tok("sortedArray ="), Tok("bubbleSort")},
       {Tok("console.log")} >>

\* defaultCode.python: no token of the JavaScript shape but 'n ='.
PythonCode ==
    << {}, {Tok("n =")}, {}, {}, {}, {}, {}, {}, {}, {}, {} >>

\* The array literal of the default example.
DefaultExpr ==
    Literal(<<Num(64), Num(34), Num(25), Num(12), Num(22), Num(11), Num(90)>>, -1)

(***************************************************************************)
(* findLine (src/services/geminiService.ts:10-13).                         *)
(***************************************************************************)
Min(S) == CHOOSE x \in S : \A y \in S : x <= y

\* findLine returning findIndex's result as it is: a 0-based index, or -1.
findLine_RawIndex(codeLines, searchString, startLine) ==
    LET found == {k \in 1..Len(codeLines) :
                     (k - 1) >= startLine /\ searchString \in codeLines[k]}
    IN  IF found # {} THEN Min(found) - 1 ELSE -1

\* findLine without the test i >= startLine.
findLine_IgnoreStart(codeLines, searchString, startLine) ==
    LET found == {k \in 1..Len(codeLines) : searchString \in codeLines[k]}
    IN  IF found # {} THEN (Min(found) - 1) + 1 ELSE startLine + 1

\* codeLines.findIndex((line, i) => i >= startLine && line.includes(searchString)),
\* then index + 1, or startLine + 1 when nothing is found.
findLine(codeLines, searchString, startLine) ==
    LET found == {k \in 1..Len(codeLines) :
                     (k - 1) >= startLine /\ searchString \in codeLines[k]}
    IN  IF found # {} THEN (Min(found) - 1) + 1 ELSE startLine + 1

\* code.includes(token) on the whole text.
includes(code, token) == \E k \in 1..Len(code) : Tok(token) \in code[k]

(***************************************************************************)
(* Number and array formatting: String(x) and Array.prototype.join.        *)
(***************************************************************************)
DigitChars == <<"0", "1", "2", "3", "4", "5", "6", "7", "8", "9">>

RECURSIVE NatToString(_)
NatToString(k) ==
    IF k < 10 THEN <<DigitChars[k + 1]>>
    ELSE Append(NatToString(k \div 10), DigitChars[(k % 10) + 1])

\* String(v) for a number or a string element.
String(v) ==
    IF v.t = "num"
    THEN IF v.n < 0 THEN <<"-">> \o NatToString(-v.n) ELSE NatToString(v.n)
    ELSE v.s

RECURSIVE join(_, _)
join(a, sep) ==
    IF a = <<>> THEN <<>>
    ELSE IF Len(a) = 1 THEN String(a[1])
    ELSE String(a[1]) \o sep \o join(Tail(a), sep)

\* Render joining with ' ' (arr.join(' ')).
Render_SpaceJoin(a) == <<"[">> \o join(a, <<" ">>) \o <<"]">>

\* `[${arr.join(', ')}]`
Render(a) == <<"[">> \o join(a, <<",", " ">>) \o <<"]">>

(***************************************************************************)
(* The relational operator > of run() line 97 on numbers and strings.      *)
(***************************************************************************)
\* Characters in code-unit order: the digits come before the letters.
Alphabet == DigitChars \o <<"a", "b">>

CharCode(c) == CHOOSE k \in 1..Len(Alphabet) : Alphabet[k] = c

RECURSIVE StringGreater(_, _)
StringGreater(x, y) ==
    IF x = <<>> THEN FALSE
    ELSE IF y = <<>> THEN TRUE
    ELSE IF CharCode(x[1]) # CharCode(y[1]) THEN CharCode(x[1]) > CharCode(y[1])
    ELSE StringGreater(Tail(x), Tail(y))

IsDigit(c) == \E k \in 1..Len(DigitChars) : DigitChars[k] = c

RECURSIVE DigitsValue(_)
DigitsValue(cs) ==
    IF cs = <<>> THEN 0
    ELSE DigitsValue(SubSeq(cs, 1, Len(cs) - 1)) * Len(DigitChars)
         + (CHOOSE k \in 0..9 : DigitChars[k + 1] = cs[Len(cs)])

\* ToNumber: a number is itself, a string of digits its value, '' is 0, any
\* other string NaN.
ToNumber(v) ==
    IF v.t = "num" THEN [nan |-> FALSE, n |-> v.n]
    ELSE IF \A k \in 1..Len(v.s) : IsDigit(v.s[k])
         THEN [nan |-> FALSE, n |-> DigitsValue(v.s)]
         ELSE [nan |-> TRUE, n |-> 0]

\* JSGreater with the operands exchanged (< for >).
JSGreater_Inverted(v1, v2) ==
    IF v1.t = "str" /\ v2.t = "str" THEN StringGreater(v2.s, v1.s)
    ELSE LET a == ToNumber(v1)
             b == ToNumber(v2)
         IN  ~a.nan /\ ~b.nan /\ a.n < b.n

\* val1 > val2: two strings compare by code unit, anything else numerically,
\* and a comparison with NaN is false.
JSGreater(v1, v2) ==
    IF v1.t = "str" /\ v2.t = "str" THEN StringGreater(v1.s, v2.s)
    ELSE LET a == ToNumber(v1)
             b == ToNumber(v2)
         IN  ~a.nan /\ ~b.nan /\ a.n > b.n

(***************************************************************************)
(* BubbleSortSimulator.evaluate (src/services/geminiService.ts:40-57).     *)
(* A result is [threw, logged, v]; v is a value before it is placed on the *)
(* heap: t is "arr" (elems), "num", "str", "undef" or "null".              *)
(***************************************************************************)
Rich(v) == [t |-> v.t, n |-> v.n, s |-> v.s, elems |-> <<>>]

RichArr(es) == [t |-> "arr", n |-> 0, s |-> <<>>, elems |-> es]

RichNull == [t |-> "null", n |-> 0, s |-> <<>>, elems |-> <<>>]

\* An identifier is bound when the scope has a key spelled like it.
Bound(scope, tok) == \E nm \in AllNames : scope[nm] # Absent /\ tok.s = <<nm>>

Lookup(scope, tok) ==
    IF tok.t = "id"
    THEN scope[CHOOSE nm \in AllNames : scope[nm] # Absent /\ tok.s = <<nm>>]
    ELSE tok

\* new Function(...scope, `"use strict"; return (${expression});`)(...values):
\* a reference to an unbound identifier throws; an index past the end gives
\* undefined.
DynamicEval(expression, scope) ==
    LET es == expression.elems
        ok == expression.bracket
              /\ \A k \in 1..Len(es) : es[k].t = "id" => Bound(scope, es[k])
        a  == [k \in 1..Len(es) |-> Lookup(scope, es[k])]
    IN  [ok |-> ok,
         v  |-> IF ~ok THEN RichNull
                ELSE IF expression.idx = -1 THEN RichArr(a)
                ELSE IF expression.idx < Len(a) THEN Rich(a[expression.idx + 1])
                ELSE Rich(Undefined)]

\* JSON.parse(expression.replace(/'/g, '"')): numbers and (re-quoted) strings
\* parse; an identifier or anything after the closing bracket is a syntax error.
JSONParse(expression) ==
    LET es == expression.elems
        ok == expression.bracket /\ expression.idx = -1
              /\ \A k \in 1..Len(es) : es[k].t \in {"num", "str"}
    IN  [ok |-> ok, v |-> IF ok THEN RichArr(es) ELSE RichNull]

evaluate(expression, scope, dynOK) ==
    LET d == DynamicEval(expression, scope)
    IN  IF dynOK /\ d.ok
        THEN [threw |-> FALSE, logged |-> FALSE, v |-> d.v]
        ELSE IF expression.bracket
             THEN LET p == JSONParse(expression)
                  IN  [threw |-> ~p.ok, logged |-> FALSE, v |-> p.v]
             ELSE [threw |-> FALSE, logged |-> TRUE, v |-> RichNull]

(***************************************************************************)
(* JSON.parse(JSON.stringify(obj)) (src/services/geminiService.ts:33):     *)
(* a new object with a new array for every array; a key whose value is     *)
(* undefined is dropped, and a Set becomes an object without keys.         *)
(***************************************************************************)
RECURSIVE CopyFields(_, _, _, _)
CopyFields(names, src, h, acc) ==
    IF names = <<>> THEN [heap |-> h, fields |-> acc]
    ELSE LET nm == Head(names)
             v  == src[nm]
         IN  IF v.t = "ref"
             THEN CopyFields(Tail(names), src,
                             Append(h, IF h[v.n].kind = "set"
                                       THEN MapCell(EmptyFields)
                                       ELSE ArrCell(h[v.n].elems)),
                             [acc EXCEPT ![nm] = Ref(Len(h) + 1)])
             ELSE IF v.t \in {"undef", "absent"}
             THEN CopyFields(Tail(names), src, h, acc)
             ELSE CopyFields(Tail(names), src, h, [acc EXCEPT ![nm] = v])

\* DeepCopy as a shallow copy ({...this.variables}): a new object that shares
\* the arrays.
DeepCopy_Shallow(h, m) ==
    [heap |-> Append(h, MapCell(h[m].fields)), addr |-> Len(h) + 1]

\* [heap, addr]: the heap with the copy, and the copy's address.
DeepCopy(h, m) ==
    LET r == CopyFields(NameOrder, h[m].fields, h, EmptyFields)
    IN  [heap |-> Append(r.heap, MapCell(r.fields)), addr |-> Len(r.heap) + 1]

\* [...a]: a new array with the elements of an array or a Set, or the
\* characters of a string (a is a reference or a string).
Spread(h, a) ==
    LET es == IF a.t = "ref" THEN h[a.n].elems
              ELSE [k \in 1..Len(a.s) |-> Str(<<a.s[k]>>)]
    IN  [heap |-> Append(h, ArrCell(es)), addr |-> Len(h) + 1]

\* [arr[j], arr[j + 1]] = [arr[j + 1], arr[j]] (j is 0-based).
SwapAdjacent(es, j0) ==
    [es EXCEPT ![j0 + 1] = es[j0 + 2], ![j0 + 2] = es[j0 + 1]]

(***************************************************************************)
(* BubbleSortSimulator.logStep (src/services/geminiService.ts:27-38) on    *)
(* the simulator's fields sim = [heap, trace, variables, output,           *)
(* currentLine]; the result is the fields after the call.                  *)
(***************************************************************************)
NoOutput == [present |-> FALSE, lines |-> <<>>]

\* logStep with output: [...this.output], without the test for an empty buffer.
logStep_AlwaysArray(sim, description, lineNumber) ==
    LET line == IF lineNumber # 0 THEN lineNumber ELSE sim.currentLine
        c    == DeepCopy(sim.heap, sim.variables)
        step == [lineNumber  |-> line,
                 variables   |-> c.addr,
                 description |-> description,
                 output      |-> [present |-> TRUE, lines |-> sim.output]]
    IN  [sim EXCEPT !.currentLine = line,
                    !.heap = c.heap,
                    !.trace = Append(sim.trace, step),
                    !.output = <<>>]

logStep(sim, description, lineNumber) ==
    LET line == IF lineNumber # 0 THEN lineNumber ELSE sim.currentLine
        c    == DeepCopy(sim.heap, sim.variables)
        step == [lineNumber  |-> line,
                 variables   |-> c.addr,
                 description |-> description,
                 output      |-> IF Len(sim.output) > 0
                                 THEN [present |-> TRUE, lines |-> sim.output]
                                 ELSE NoOutput]
    IN  [sim EXCEPT !.currentLine = line,
                    !.heap = c.heap,
                    !.trace = Append(sim.trace, step),
                    !.output = <<>>]

\* A step's description: the template that was filled, the array name and
\* the values put into it, and the rendered array for the "Array is now [...]" template.
Describe(kind, name, vals, text) ==
    [kind |-> kind, name |-> name, vals |-> vals, text |-> text]

(***************************************************************************)
(* Inputs: the sources, languages and environments a call is made with.    *)
(***************************************************************************)
\* Element tokens of the enumerated array literals: numbers, a quoted
\* string, and an identifier that nothing declares.
Tokens == {Num(-1), Num(12), Str(<<"a">>), Ident(<<"x">>)}

\* The orders of three different numbers.
Shuffled ==
    {es \in [1..3 -> {Num(-1), Num(2), Num(12)}] :
        \A a, b \in 1..3 : a # b => es[a] # es[b]}

\* '[...]', '[...][0]' and '[...][1]' over the tokens, three different
\* numbers in every order, and the default array.
Exprs ==
    {Literal(es, ix) : es \in UNION {[1..k -> Tokens] : k \in 0..MaxLen},
                       ix \in {-1, 0, 1}}
    \cup {Literal(es, -1) : es \in Shuffled}
    \cup {DefaultExpr}

\* A source without one of its fragments.
Without(code, frag) == [k \in 1..Len(code) |-> code[k] \ {frag}]

RenamedExprs == {Literal(<<Num(12), Num(2), Num(-1)>>, -1)}

\* '[new Set([12, -1])][0]'
SetExpr == Literal(<<NewSet>>, 0)

Codes ==
    {JSCode("myArray", e) : e \in Exprs}
    \cup {JSCode(nm, e) : nm \in {"arr", "n"}, e \in RenamedExprs}
    \cup {JSCode(nm, SetExpr) : nm \in {"myArray", "n"}}
    \cup {Without(JSCode("myArray", DefaultExpr), Tok("bubbleSort")),
          Without(JSCode("myArray", DefaultExpr), Tok("arr.length")),
          Without(JSCode("myArray", DefaultExpr), Decl("myArray", DefaultExpr)),
          PythonCode}

Languages == {"python", "javascript"}

(***************************************************************************)
(* State.                                                                  *)
(***************************************************************************)
VARIABLES
    pc,           \* where the call is: idle, run, ..., returned or failed
    language,     \* generateExecutionTrace's arguments
    code,
    dynamicOK,    \* whether the host lets new Function compile text
    heap,         \* the objects: scope, arrays, snapshots
    simulators,   \* how many BubbleSortSimulator objects were constructed
    codeLines,    \* BubbleSortSimulator's fields; variables is the address
    trace,        \* of the scope object
    variables,
    output,
    currentLine,
    arrMatch,     \* run()'s locals
    arrValue,
    n,
    arr,
    i,
    j,
    val1,
    val2,
    swaps,        \* how many times line 101 exchanged two elements
    evaluated,    \* what evaluate() did: [called, threw, logged, v]
    result,       \* the steps the call returned, if it returned
    error,        \* the error the call was rejected with, if it was
    mutated,      \* the returned step the caller has written to, or 0
    probe,        \* a direct call of findLine: its arguments and its result
    pending,      \* a caller's calls that wait for their delay to end
    settled,      \* and the outcomes of its calls that ended, in order
    ui,           \* the App component's state (useState)
    timer,        \* its play interval and the dependencies its effects last ran with
    watch         \* whether a tick has landed on a breakpoint since the last press of play or step

simVars == <<heap, trace, variables, output, currentLine, codeLines, simulators>>

callVars == <<language, code, dynamicOK>>

localVars == <<arrMatch, arrValue, n, arr, i, j, val1, val2, swaps>>

\* What generateExecutionTrace and the simulator never touch.
sessionVars == <<pending, settled>>

uiVars == <<ui, timer, watch>>

otherVars == <<probe, sessionVars, uiVars>>

vars ==
    <<pc, callVars, simVars, localVars, evaluated, result, error, mutated,
      otherVars>>

NoMatch == Decl("", NoExpr)

NoError == [kind |-> "none", cause |-> "none"]

NoResult == [present |-> FALSE, steps |-> <<>>]

NotEvaluated == [called |-> FALSE, threw |-> FALSE, logged |-> FALSE, v |-> RichNull]

NoProbe ==
    [codeLines |-> <<>>, searchString |-> <<>>, startLine |-> 0,
     called |-> FALSE, result |-> 0]

\* No call has been made.
Idle ==
    /\ pc = "idle"
    /\ language = "javascript"
    /\ code = <<>>
    /\ heap = <<>>
    /\ simulators = 0
    /\ codeLines = <<>>
    /\ trace = <<>>
    /\ variables = 0
    /\ output = <<>>
    /\ currentLine = 0
    /\ arrMatch = NoMatch
    /\ arrValue = Undefined
    /\ n = Undefined
    /\ arr = 0
    /\ i = 0
    /\ j = 0
    /\ val1 = Undefined
    /\ val2 = Undefined
    /\ swaps = 0
    /\ evaluated = NotEvaluated
    /\ result = NoResult
    /\ error = NoError
    /\ mutated = 0

\* executionTrace: null, or the steps of the call that made it (id numbers
\* the call: two traces are the same object when they have the same id).
NoTrace == [present |-> FALSE, id |-> 0, steps |-> <<>>]

\* The App component once mounted (useState defaults, src/unnamed/part_001
\* lines 84-93, and handleLanguageChange('javascript') of line 108), with
\* its effects run.
Mounted ==
    /\ ui = [language |-> "javascript",
             code |-> JSCode("myArray", DefaultExpr),
             executionTrace |-> NoTrace,
             currentStep |-> 0,
             isPlaying |-> FALSE,
             isLoading |-> FALSE,
             error |-> NoError,
             breakpoints |-> {}]
    /\ timer = [live |-> FALSE, executionTrace |-> NoTrace, breakpoints |-> {},
                intervalDeps |-> <<FALSE, 0, {}>>, endDeps |-> <<0, 0>>]
    /\ watch = [held |-> FALSE]

Init ==
    /\ Idle
    /\ dynamicOK = TRUE
    /\ probe = NoProbe
    /\ pending = <<>>
    /\ settled = <<>>
    /\ Mounted

Sim ==
    [heap |-> heap, trace |-> trace, variables |-> variables, output |-> output,
     currentLine |-> currentLine]

\* The simulator's fields become those of sim.
Commit(sim) ==
    /\ heap' = sim.heap
    /\ trace' = sim.trace
    /\ output' = sim.output
    /\ currentLine' = sim.currentLine
    /\ UNCHANGED <<variables, codeLines, simulators>>

\* this.variables[name] = v
Bind(sim, name, v) == [sim EXCEPT !.heap[sim.variables].fields[name] = v]

\* Throw with a catch block that resolves with the steps recorded so far.
Throw_ReturnPartial(cause) ==
    /\ pc' = "returned"
    /\ result' = [present |-> TRUE, steps |-> trace]
    /\ UNCHANGED error

\* An error thrown inside the try block of generateExecutionTrace
\* (src/services/geminiService.ts:138-143): rethrown as "Simulation Failed: ...".
Throw(cause) ==
    /\ pc' = "failed"
    /\ error' = [kind |-> "simulationFailed", cause |-> cause]
    /\ UNCHANGED result

(***************************************************************************)
(* generateExecutionTrace (src/services/geminiService.ts:121-144) up to    *)
(* the construction of the simulator.                                      *)
(***************************************************************************)
\* RejectsLanguage without the check.
RejectsLanguage_NoCheck(lang) == FALSE

\* Line 125: the language check.
RejectsLanguage(lang) == lang = "python"

\* PassesShapeCheck with || for &&: one token is enough.
PassesShapeCheck_Either(c) == includes(c, "bubbleSort") \/ includes(c, "arr.length")

\* Line 128: the coarse shape check.
PassesShapeCheck(c) == includes(c, "bubbleSort") /\ includes(c, "arr.length")

\* NewSimulator with static fields: one trace and one output buffer for
\* all simulators.
NewSimulator_StaticFields(c, h) ==
    [codeLines |-> c, trace |-> trace, output |-> output, currentLine |-> 1,
     heap |-> Append(h, MapCell(EmptyFields)), variables |-> Len(h) + 1]

\* new BubbleSortSimulator(code) (lines 17-25): the fields of the new object,
\* whose variables object is allocated on the heap h.
NewSimulator(c, h) ==
    [codeLines |-> c, trace |-> <<>>, output |-> <<>>, currentLine |-> 1,
     heap |-> Append(h, MapCell(EmptyFields)), variables |-> Len(h) + 1]

Generate(c, lang, dyn) ==
    /\ pc = "idle"
    /\ language' = lang
    /\ code' = c
    /\ dynamicOK' = dyn
    /\ IF RejectsLanguage(lang)
       THEN /\ pc' = "failed"
            /\ error' = [kind |-> "unsupportedLanguage", cause |-> "none"]
            /\ UNCHANGED simVars
       ELSE IF ~PassesShapeCheck(c)
       THEN /\ pc' = "failed"
            /\ error' = [kind |-> "unsupportedCode", cause |-> "none"]
            /\ UNCHANGED simVars
       ELSE LET sim == NewSimulator(c, heap)
            IN  /\ pc' = "run"
                /\ codeLines' = sim.codeLines
                /\ trace' = sim.trace
                /\ heap' = sim.heap
                /\ variables' = sim.variables
                /\ output' = sim.output
                /\ currentLine' = sim.currentLine
                /\ simulators' = simulators + 1
            /\ UNCHANGED error
    /\ UNCHANGED <<localVars, evaluated, result, mutated>>

\* A call of generateExecutionTrace(code, language) by a caller that does
\* nothing else.
Call(c, lang, dyn) == Generate(c, lang, dyn) /\ UNCHANGED otherVars

(***************************************************************************)
(* BubbleSortSimulator.run (src/services/geminiService.ts:59-117), one     *)
(* action per stretch of code that ends in a logStep or a throw.           *)
(***************************************************************************)
\* codeText.match(arrInitRegex): the first declaration fragment of the text.
Match(lines) ==
    LET at == {k \in 1..Len(lines) : \E fr \in lines[k] : fr.f = "decl"}
    IN  IF at = {} THEN NoMatch
        ELSE CHOOSE fr \in lines[Min(at)] : fr.f = "decl"

\* Lines 60-66.
RunMatch ==
    /\ pc = "run"
    /\ arrMatch' = Match(codeLines)
    /\ IF arrMatch' = NoMatch
       THEN Throw("noArrayInitialization")
       ELSE pc' = "evaluate" /\ UNCHANGED <<error, result>>
    /\ UNCHANGED <<otherVars, callVars, simVars, arrValue, n, arr, i, j, val1, val2, swaps,
                   evaluated, mutated>>

\* arrValue.length
LengthOf(h, v) ==
    IF v.t = "ref"
    THEN IF h[v.n].kind = "arr" THEN Num(Len(h[v.n].elems)) ELSE Undefined
    ELSE IF v.t = "str" THEN Num(Len(v.s))
    ELSE Undefined

\* Lines 68-70: evaluate the literal; reading .length of undefined throws.
RunEvaluate ==
    /\ pc = "evaluate"
    /\ LET r == evaluate(arrMatch.e, heap[variables].fields, dynamicOK)
       IN  /\ evaluated' = [called |-> TRUE, threw |-> r.threw,
                            logged |-> r.logged, v |-> r.v]
           /\ IF r.threw
              THEN /\ Throw("syntaxError")
                   /\ UNCHANGED <<heap, arrValue, n>>
              ELSE IF r.v.t \in {"undef", "null"}
              THEN /\ Throw("typeError")
                   /\ UNCHANGED <<heap, arrValue, n>>
              ELSE /\ pc' = "initArray"
                   /\ heap' = IF r.v.t = "arr"
                              THEN Append(heap, ArrCell(r.v.elems))
                              ELSE IF r.v.t = "set"
                              THEN Append(heap, SetCell(SetElems))
                              ELSE heap
                   /\ arrValue' = IF r.v.t \in {"arr", "set"} THEN Ref(Len(heap) + 1)
                                  ELSE [t |-> r.v.t, n |-> r.v.n, s |-> r.v.s]
                   /\ n' = LengthOf(heap', arrValue')
                   /\ UNCHANGED <<error, result>>
    /\ UNCHANGED <<otherVars, callVars, trace, variables, output, currentLine, codeLines,
                   simulators, arrMatch, arr, i, j, val1, val2, swaps, mutated>>

\* Lines 72-74.
RunInitArray ==
    /\ pc = "initArray"
    /\ Commit(logStep(Bind(Sim, arrMatch.s, arrValue),
                      Describe("initArray", arrMatch.s,
                               <<LengthOf(heap, arrValue)>>, <<>>),
                      findLine(codeLines, arrMatch, 0)))
    /\ pc' = "initN"
    /\ UNCHANGED <<otherVars, callVars, localVars, evaluated, result, error, mutated>>

\* Lines 76-78.
RunInitN ==
    /\ pc = "initN"
    /\ Commit(logStep(Bind(Sim, "n", n),
                      Describe("initN", arrMatch.s, <<n>>, <<>>),
                      findLine(codeLines, Tok("n ="), 0)))
    /\ pc' = "copy"
    /\ UNCHANGED <<otherVars, callVars, localVars, evaluated, result, error, mutated>>

\* Iterable for Array.from(v), which accepts any value and never throws.
Iterable_ArrayFrom(v) == TRUE

\* Whether [...v] is defined: arrays and strings are iterable, numbers not.
Iterable(v) == v.t \in {"ref", "str"}

\* OuterTest with <= for <.
OuterTest_Inclusive(i0, len) == i0 <= len

\* The outer loop's test i < n (line 83).
OuterTest(i0, len) == i0 < len

\* InnerTest stopping one pair early.
InnerTest_Short(i0, j0, len) == j0 < len - i0 - 2

\* The inner loop's test j < n - i - 1 (line 88).
InnerTest(i0, j0, len) == j0 < len - i0 - 1

\* Lines 80-83: const arr = [...arrValue] throws when arrValue is a number;
\* then the outer loop's first test.  An undefined n is held with n.n = 0:
\* i < undefined is false for every i >= 0, as i < 0 is.
RunCopy ==
    /\ pc = "copy"
    /\ IF ~Iterable(arrValue)
       THEN /\ Throw("typeError")
            /\ UNCHANGED <<heap, arr>>
       ELSE LET c == Spread(heap, arrValue)
            IN  /\ heap' = c.heap
                /\ arr' = c.addr
                /\ pc' = IF OuterTest(0, n.n) THEN "outer" ELSE "finish"
                /\ UNCHANGED <<error, result>>
    /\ i' = 0
    /\ UNCHANGED <<otherVars, callVars, trace, variables, output, currentLine, codeLines,
                   simulators, arrMatch, arrValue, n, j, val1, val2, swaps,
                   evaluated, mutated>>

\* Where control is after the inner iteration (i0, j0) ends: j++ and the
\* inner test, then i++ and the outer test.  j0 = -1 enters the inner loop.
LoopNext(i0, j0, len) ==
    IF InnerTest(i0, j0 + 1, len) THEN [pc |-> "inner", i |-> i0, j |-> j0 + 1]
    ELSE IF OuterTest(i0 + 1, len) THEN [pc |-> "outer", i |-> i0 + 1, j |-> j0 + 1]
    ELSE [pc |-> "finish", i |-> i0 + 1, j |-> j0 + 1]

\* Lines 83-88: an outer iteration starts.
OuterLoop ==
    /\ pc = "outer"
    /\ Commit(logStep(Bind(Sim, "i", Num(i)),
                      Describe("outer", arrMatch.s, <<Num(i)>>, <<>>),
                      findLine(codeLines, Tok("for (let i"), 0)))
    /\ LET nx == LoopNext(i, -1, n.n)
       IN  pc' = nx.pc /\ i' = nx.i /\ j' = nx.j
    /\ UNCHANGED <<otherVars, callVars, arrMatch, arrValue, n, arr, val1, val2, swaps,
                   evaluated, result, error, mutated>>

\* Lines 88-90: an inner iteration starts.
InnerLoop ==
    /\ pc = "inner"
    /\ Commit(logStep(Bind(Sim, "j", Num(j)),
                      Describe("inner", arrMatch.s, <<Num(j)>>, <<>>),
                      findLine(codeLines, Tok("for (let j"), 0)))
    /\ pc' = "compare"
    /\ UNCHANGED <<otherVars, callVars, localVars, evaluated, result, error, mutated>>

\* Compare with the comparison step inside the branch: emitted only when
\* the pair is out of order.
Compare_InsideBranch ==
    /\ pc = "compare"
    /\ val1' = heap[arr].elems[j + 1]
    /\ val2' = heap[arr].elems[j + 2]
    /\ IF JSGreater(val1', val2')
       THEN /\ Commit(logStep(Sim,
                              Describe("compare", arrMatch.s,
                                       <<Num(j), val1', Num(j + 1), val2'>>, <<>>),
                              findLine(codeLines, Tok("if (arr[j]"), 0)))
            /\ pc' = "swap"
            /\ UNCHANGED <<i, j>>
       ELSE /\ UNCHANGED simVars
            /\ LET nx == LoopNext(i, j, n.n)
               IN  pc' = nx.pc /\ i' = nx.i /\ j' = nx.j
    /\ UNCHANGED <<otherVars, callVars, arrMatch, arrValue, n, arr, swaps,
                   evaluated, result, error, mutated>>

\* Lines 92-97: the comparison step, then the branch.
Compare ==
    /\ pc = "compare"
    /\ val1' = heap[arr].elems[j + 1]
    /\ val2' = heap[arr].elems[j + 2]
    /\ Commit(logStep(Sim,
                      Describe("compare", arrMatch.s,
                               <<Num(j), val1', Num(j + 1), val2'>>, <<>>),
                      findLine(codeLines, Tok("if (arr[j]"), 0)))
    /\ IF JSGreater(val1', val2')
       THEN pc' = "swap" /\ UNCHANGED <<i, j>>
       ELSE LET nx == LoopNext(i, j, n.n)
            IN  pc' = nx.pc /\ i' = nx.i /\ j' = nx.j
    /\ UNCHANGED <<otherVars, callVars, arrMatch, arrValue, n, arr, swaps, evaluated,
                   result, error, mutated>>

\* Lines 98-99: the "condition true" step.
SwapAnnounce ==
    /\ pc = "swap"
    /\ Commit(logStep(Sim,
                      Describe("conditionTrue", arrMatch.s, <<val1, val2>>, <<>>),
                      findLine(codeLines, SwapLhs(arrMatch.s), 0)))
    /\ pc' = "swapped"
    /\ UNCHANGED <<otherVars, callVars, localVars, evaluated, result, error, mutated>>

\* Lines 101-105: swap in the working array, rebind the array to a copy, step.
SwapDo ==
    /\ pc = "swapped"
    /\ LET h1 == [heap EXCEPT ![arr].elems = SwapAdjacent(heap[arr].elems, j)]
           c  == Spread(h1, Ref(arr))
           s1 == Bind([Sim EXCEPT !.heap = c.heap], arrMatch.s, Ref(c.addr))
       IN  Commit(logStep(s1,
                          Describe("arrayNow", arrMatch.s, <<>>,
                                   join(h1[arr].elems, <<",", " ">>)),
                          findLine(codeLines, SwapLhs(arrMatch.s), 0)))
    /\ swaps' = swaps + 1
    /\ LET nx == LoopNext(i, j, n.n)
       IN  pc' = nx.pc /\ i' = nx.i /\ j' = nx.j
    /\ UNCHANGED <<otherVars, callVars, arrMatch, arrValue, n, arr, val1, val2, evaluated,
                   result, error, mutated>>

\* Lines 108-110.
Finish ==
    /\ pc = "finish"
    /\ LET c  == Spread(heap, Ref(arr))
           s1 == Bind([Sim EXCEPT !.heap = c.heap], "sortedArray", Ref(c.addr))
       IN  Commit(logStep(s1, Describe("complete", arrMatch.s, <<>>, <<>>),
                          findLine(codeLines, Tok("sortedArray ="), 0)))
    /\ pc' = "print"
    /\ UNCHANGED <<otherVars, callVars, localVars, evaluated, result, error, mutated>>

\* Lines 112-116: the output step; run() returns and the call waits.
PrintOutput ==
    /\ pc = "print"
    /\ Commit(logStep([Sim EXCEPT !.output = <<Render(heap[arr].elems)>>],
                      Describe("print", arrMatch.s, <<>>, <<>>),
                      findLine(codeLines, Tok("console.log"), 0)))
    /\ pc' = "delay"
    /\ UNCHANGED <<otherVars, callVars, localVars, evaluated, result, error, mutated>>

\* generateExecutionTrace lines 134-137: after the delay the trace is returned.
Resolve ==
    /\ pc = "delay"
    /\ result' = [present |-> TRUE, steps |-> trace]
    /\ pc' = "returned"
    /\ UNCHANGED <<otherVars, callVars, simVars, localVars, evaluated, error, mutated>>

(***************************************************************************)
(* The caller owns the returned steps and may write to them, once per      *)
(* call here: it rebinds a name of one step's variables, or overwrites the *)
(* first element of one of that step's arrays.                             *)
(***************************************************************************)
CallerValue == Str(<<"b">>)

\* The names the caller rebinds.
RebindNames == {"n"}

\* result[k].variables[nm] = CallerValue
CallerRebind(k, nm) ==
    /\ pc = "returned"
    /\ mutated = 0
    /\ k \in 1..Len(result.steps)
    /\ heap[result.steps[k].variables].fields[nm] # Absent
    /\ heap' = [heap EXCEPT ![result.steps[k].variables].fields[nm] = CallerValue]
    /\ mutated' = k
    /\ UNCHANGED <<otherVars, pc, callVars, trace, variables, output, currentLine,
                   codeLines, simulators, localVars, evaluated, result, error>>

\* result[k].variables[nm][0] = CallerValue
CallerWrite(k, nm) ==
    /\ pc = "returned"
    /\ mutated = 0
    /\ k \in 1..Len(result.steps)
    /\ LET v == heap[result.steps[k].variables].fields[nm]
       IN  /\ v.t = "ref"
           /\ Len(heap[v.n].elems) > 0
           /\ heap' = [heap EXCEPT ![v.n].elems[1] = CallerValue]
    /\ mutated' = k
    /\ UNCHANGED <<otherVars, pc, callVars, trace, variables, output, currentLine,
                   codeLines, simulators, localVars, evaluated, result, error>>

Next ==
    \/ \E c \in Codes, lang \in Languages, dyn \in BOOLEAN : Call(c, lang, dyn)
    \/ RunMatch
    \/ RunEvaluate
    \/ RunInitArray
    \/ RunInitN
    \/ RunCopy
    \/ OuterLoop
    \/ InnerLoop
    \/ Compare
    \/ SwapAnnounce
    \/ SwapDo
    \/ Finish
    \/ PrintOutput
    \/ Resolve
    \/ \E k \in 1..Len(result.steps), nm \in RebindNames : CallerRebind(k, nm)
    \/ \E k \in 1..Len(result.steps), nm \in AllNames : CallerWrite(k, nm)

Spec == Init /\ [][Next]_vars

(***************************************************************************)
(* findLine called directly, on lines of characters.  line.includes(s) is  *)
(* membership of s in the set of the strings that occur in the line.       *)
(***************************************************************************)
\* Longest list of lines, and longest line and search string, findLine is
\* called with.
MaxLines == 2

MaxChars == 2

ProbeChars == {"a", "b"}

ProbeStrings == UNION {[1..k -> ProbeChars] : k \in 0..MaxChars}

\* The strings that occur in a line: those s with line.includes(s).
Text(cs) == {SubSeq(cs, a, b) : a \in 1..(Len(cs) + 1), b \in 0..Len(cs)}

ProbeInit ==
    /\ Idle
    /\ dynamicOK = TRUE
    /\ pending = <<>>
    /\ settled = <<>>
    /\ Mounted
    /\ probe \in {[codeLines |-> ls, searchString |-> str, startLine |-> st,
                   called |-> FALSE, result |-> 0] :
                      ls \in UNION {[1..k -> ProbeStrings] : k \in 0..MaxLines},
                      str \in ProbeStrings,
                      st \in 0..(MaxLines + 1)}

FindLineCall ==
    /\ ~probe.called
    /\ probe' = [probe EXCEPT
                    !.called = TRUE,
                    !.result = findLine([k \in 1..Len(probe.codeLines) |->
                                            Text(probe.codeLines[k])],
                                        probe.searchString, probe.startLine)]
    /\ UNCHANGED <<pc, callVars, simVars, localVars, evaluated, result, error,
                   mutated, sessionVars, uiVars>>

ProbeNext == FindLineCall

ProbeSpec == ProbeInit /\ [][ProbeNext]_vars

(***************************************************************************)
(* A caller that calls generateExecutionTrace again and again, also while  *)
(* earlier calls wait for their delay: run() is synchronous, so calls      *)
(* interleave only at the await of line 136.  The heap and the last        *)
(* simulator's fields stay as a call leaves them; only the locals of the   *)
(* call go.                                                                *)
(***************************************************************************)
\* How many calls one caller makes.
MaxCalls == 3

SessionCodes ==
    {JSCode("myArray", Literal(<<Num(12), Num(-1)>>, -1)),
     JSCode("arr", Literal(<<Num(-1)>>, -1))}

SessionInit ==
    /\ Idle
    /\ dynamicOK \in BOOLEAN
    /\ probe = NoProbe
    /\ pending = <<>>
    /\ settled = <<>>
    /\ Mounted

\* The call's frame is gone: its locals, and what the model notes about it.
CallReset ==
    /\ pc' = "idle"
    /\ arrMatch' = NoMatch
    /\ arrValue' = Undefined
    /\ n' = Undefined
    /\ arr' = 0
    /\ i' = 0
    /\ j' = 0
    /\ val1' = Undefined
    /\ val2' = Undefined
    /\ swaps' = 0
    /\ evaluated' = NotEvaluated
    /\ result' = NoResult
    /\ error' = NoError
    /\ mutated' = 0

\* What a sequence of steps shows to who reads it on the heap h: every
\* field of every step, with the arrays' elements in place of the references.
Shown(h, steps) ==
    [k \in 1..Len(steps) |->
        LET f == h[steps[k].variables].fields
        IN  [lineNumber  |-> steps[k].lineNumber,
             description |-> steps[k].description,
             output      |-> steps[k].output,
             fields      |-> [nm \in AllNames |->
                                 IF f[nm].t = "ref" THEN Ref(0) ELSE f[nm]],
             arrays      |-> [nm \in AllNames |->
                                 IF f[nm].t = "ref" THEN h[f[nm].n].elems ELSE <<>>]]]

\* generateExecutionTrace(c, lang) on the caller's host.
SessionCall(c, lang) ==
    /\ Len(settled) + Len(pending) < MaxCalls
    /\ Generate(c, lang, dynamicOK)
    /\ UNCHANGED otherVars

\* Line 136: run() has returned and the call awaits its timer; the caller
\* runs on.
Park ==
    /\ pc = "delay"
    /\ pending' = Append(pending, [code |-> code, language |-> language,
                                   steps |-> trace,
                                   overlapped |-> Len(pending) > 0])
    /\ CallReset
    /\ UNCHANGED <<callVars, simVars, probe, settled, uiVars>>

\* Line 137: the oldest waiting call's timer fires, while no call is
\* running, and the call returns its trace.
ResolveParked ==
    /\ pc = "idle"
    /\ pending # <<>>
    /\ settled' = Append(settled,
                         [code |-> pending[1].code,
                          language |-> pending[1].language,
                          ok |-> TRUE,
                          steps |-> Shown(heap, pending[1].steps),
                          error |-> NoError,
                          overlapped |-> pending[1].overlapped
                                         \/ Len(pending) > 1])
    /\ pending' = Tail(pending)
    /\ UNCHANGED <<pc, callVars, simVars, localVars, evaluated, result, error,
                   mutated, probe, uiVars>>

\* Lines 125-129 and 138-143: the call is rejected.
SettleFailed ==
    /\ pc = "failed"
    /\ settled' = Append(settled,
                         [code |-> code, language |-> language, ok |-> FALSE,
                          steps |-> <<>>, error |-> error,
                          overlapped |-> Len(pending) > 0])
    /\ CallReset
    /\ UNCHANGED <<callVars, simVars, probe, pending, uiVars>>

SessionNext ==
    \/ \E c \in SessionCodes, lang \in Languages : SessionCall(c, lang)
    \/ RunMatch
    \/ RunEvaluate
    \/ RunInitArray
    \/ RunInitN
    \/ RunCopy
    \/ OuterLoop
    \/ InnerLoop
    \/ Compare
    \/ SwapAnnounce
    \/ SwapDo
    \/ Finish
    \/ PrintOutput
    \/ Park
    \/ ResolveParked
    \/ SettleFailed

SessionSpec == SessionInit /\ [][SessionNext]_vars

(***************************************************************************)
(* The App component (src/unnamed/part_001): its state, its handlers, its  *)
(* play interval and its effects.  A handler, a timer callback and a       *)
(* promise continuation each run to completion, and none runs while run()  *)
(* does.  React renders a state change before anything else happens; it    *)
(* runs the effects of a render caused by a click before the click ends,   *)
(* and the effects of a render caused by a timer or a promise in a task of *)
(* their own, which a timer callback that is due can precede.              *)
(***************************************************************************)
\* How many times Visualize is pressed.
MaxRuns == 2

\* The texts the editor holds: the two default examples and an edit of the
\* JavaScript one.
UICodes ==
    {JSCode("myArray", DefaultExpr),
     PythonCode,
     JSCode("myArray", Literal(<<Num(12), Num(-1)>>, -1))}

\* defaultCode[lang]
defaultCode(lang) ==
    IF lang = "python" THEN PythonCode ELSE JSCode("myArray", DefaultExpr)

\* The lines whose gutter the user clicks.
BreakLines == {1, 5}

UIInit ==
    /\ Idle
    /\ dynamicOK = TRUE
    /\ probe = NoProbe
    /\ pending = <<>>
    /\ settled = <<>>
    /\ Mounted

\* No JavaScript is running: the page can take an event.
Quiet == pc \in {"idle", "delay"}

\* Line 131.  The speed only sets the period of the interval, which no
\* action here depends on.
IntervalDeps(u) == <<u.isPlaying, u.executionTrace.id, u.breakpoints>>

\* Line 137.
EndDeps(u) == <<u.currentStep, u.executionTrace.id>>

\* One run of the effects whose dependencies changed since they last ran.
\* Lines 111-131: the interval of the last run is cleared and, when playing
\* with a trace, a new one is set that keeps this render's executionTrace
\* and breakpoints.  Lines 133-137: at the last step playing stops.
EffectRound(u, t) ==
    LET on == u.isPlaying /\ u.executionTrace.present
        t1 == IF t.intervalDeps = IntervalDeps(u) THEN t
              ELSE [t EXCEPT
                      !.live = on,
                      !.executionTrace = IF on THEN u.executionTrace ELSE NoTrace,
                      !.breakpoints = IF on THEN u.breakpoints ELSE {},
                      !.intervalDeps = IntervalDeps(u)]
        u1 == IF /\ t.endDeps # EndDeps(u)
                 /\ u.executionTrace.present
                 /\ u.currentStep >= Len(u.executionTrace.steps) - 1
              THEN [u EXCEPT !.isPlaying = FALSE]
              ELSE u
    IN  [ui |-> u1, timer |-> [t1 EXCEPT !.endDeps = EndDeps(u)]]

\* The effects run until none is due.
Flush(u, t) ==
    LET r1 == EffectRound(u, t)
        r2 == EffectRound(r1.ui, r1.timer)
    IN  EffectRound(r2.ui, r2.timer)

EffectsDue == EffectRound(ui, timer) # [ui |-> ui, timer |-> timer]

\* A click: the effects that are due run, the handler's updates are
\* rendered, and the effects of that render run.
Click(u) ==
    LET r == Flush(u, Flush(ui, timer).timer)
    IN  ui' = r.ui /\ timer' = r.timer

\* The state the handler's updater functions start from.
Latest == Flush(ui, timer).ui

\* Lines 159-166, from the language buttons (disabled while loading).
handleLanguageChange(lang) ==
    /\ Quiet
    /\ ~ui.isLoading
    /\ Click([Latest EXCEPT !.language = lang,
                            !.code = defaultCode(lang),
                            !.executionTrace = NoTrace,
                            !.currentStep = 0,
                            !.error = NoError,
                            !.breakpoints = {}])
    /\ watch' = [held |-> FALSE]
    /\ UNCHANGED <<pc, callVars, simVars, localVars, evaluated, result, error,
                   mutated, probe, sessionVars>>

\* Lines 241-247: the textarea, shown when there is no trace and disabled
\* while loading.
EditCode(c) ==
    /\ Quiet
    /\ ~ui.executionTrace.present
    /\ ~ui.isLoading
    /\ c # ui.code
    /\ Click([Latest EXCEPT !.code = c])
    /\ UNCHANGED watch
    /\ UNCHANGED <<pc, callVars, simVars, localVars, evaluated, result, error,
                   mutated, probe, sessionVars>>

\* handleVisualize without setIsLoading(true).
handleVisualize_NoLoadingFlag ==
    /\ ~ui.isLoading
    /\ simulators < MaxRuns
    /\ Generate(ui.code, ui.language, dynamicOK)
    /\ Click([Latest EXCEPT !.error = NoError,
                            !.executionTrace = NoTrace,
                            !.currentStep = 0,
                            !.isPlaying = FALSE])
    /\ watch' = [held |-> FALSE]
    /\ UNCHANGED <<probe, sessionVars>>

\* Lines 168-175, from the Visualize button (disabled while loading): the
\* state is reset and generateExecutionTrace(code, language) is called.
handleVisualize ==
    /\ ~ui.isLoading
    /\ simulators < MaxRuns
    /\ Generate(ui.code, ui.language, dynamicOK)
    /\ Click([Latest EXCEPT !.isLoading = TRUE,
                            !.error = NoError,
                            !.executionTrace = NoTrace,
                            !.currentStep = 0,
                            !.isPlaying = FALSE])
    /\ watch' = [held |-> FALSE]
    /\ UNCHANGED <<probe, sessionVars>>

\* Lines 175-176 and 183-185: the call returned; the trace is installed.
\* The state keeps the steps with their snapshots; nothing refers to the
\* simulator any more.
Install ==
    /\ pc = "returned"
    /\ ui' = [ui EXCEPT !.executionTrace =
                             [present |-> TRUE, id |-> simulators,
                              steps |-> Shown(heap, result.steps)],
                        !.isLoading = FALSE]
    /\ watch' = [held |-> FALSE]
    /\ CallReset
    /\ heap' = <<>>
    /\ codeLines' = <<>>
    /\ trace' = <<>>
    /\ variables' = 0
    /\ output' = <<>>
    /\ currentLine' = 0
    /\ UNCHANGED <<callVars, simulators, probe, sessionVars, timer>>

\* Lines 177-185: the call was rejected; its message is shown.
ShowError ==
    /\ pc = "failed"
    /\ ui' = [ui EXCEPT !.error = error, !.isLoading = FALSE]
    /\ watch' = [held |-> FALSE]
    /\ CallReset
    /\ UNCHANGED <<callVars, simVars, probe, sessionVars, timer>>

\* Lines 188-196, from the step buttons (lines 311 and 317: disabled
\* without a trace, while loading, and at the first or the last step).
handleStep(direction) ==
    /\ Quiet
    /\ ui.executionTrace.present
    /\ ~ui.isLoading
    /\ IF direction = "forward"
       THEN ui.currentStep # Len(ui.executionTrace.steps) - 1
       ELSE ui.currentStep # 0
    /\ LET prev == Latest.currentStep
           last == Len(ui.executionTrace.steps) - 1
       IN  Click([Latest EXCEPT
                    !.isPlaying = FALSE,
                    !.currentStep =
                        IF direction = "forward"
                        THEN (IF prev + 1 < last THEN prev + 1 ELSE last)
                        ELSE (IF prev - 1 > 0 THEN prev - 1 ELSE 0)])
    /\ watch' = [held |-> FALSE]
    /\ UNCHANGED <<pc, callVars, simVars, localVars, evaluated, result, error,
                   mutated, probe, sessionVars>>

\* Line 314: the play button (disabled without a trace, while loading, and
\* at the last step).
TogglePlay ==
    /\ Quiet
    /\ ui.executionTrace.present
    /\ ~ui.isLoading
    /\ ui.currentStep # Len(ui.executionTrace.steps) - 1
    /\ Click([Latest EXCEPT !.isPlaying = ~Latest.isPlaying])
    /\ watch' = [held |-> FALSE]
    /\ UNCHANGED <<pc, callVars, simVars, localVars, evaluated, result, error,
                   mutated, probe, sessionVars>>

\* Lines 147-157, from a gutter (lines 219-229: shown when there is a trace).
toggleBreakpoint(lineNumber) ==
    /\ Quiet
    /\ ui.executionTrace.present
    /\ lineNumber \in 1..Len(ui.code)
    /\ Click([Latest EXCEPT !.breakpoints =
                                IF lineNumber \in Latest.breakpoints
                                THEN Latest.breakpoints \ {lineNumber}
                                ELSE Latest.breakpoints \cup {lineNumber}])
    /\ UNCHANGED watch
    /\ UNCHANGED <<pc, callVars, simVars, localVars, evaluated, result, error,
                   mutated, probe, sessionVars>>

\* Tick without the test prev >= executionTrace.length - 1.
Tick_NoEndTest ==
    /\ Quiet
    /\ timer.live
    /\ LET prev == ui.currentStep
           lines == {timer.executionTrace.steps[k].lineNumber :
                        k \in {prev + 2} \cap 1..Len(timer.executionTrace.steps)}
           stop == lines \cap timer.breakpoints # {}
       IN  /\ ui' = [ui EXCEPT !.currentStep = prev + 1,
                               !.isPlaying = IF stop THEN FALSE ELSE @]
           /\ watch' = [held |-> watch.held \/ stop]
    /\ UNCHANGED <<pc, callVars, simVars, localVars, evaluated, result, error,
                   mutated, probe, sessionVars, timer>>

\* Lines 113-124: the interval's callback, with the executionTrace and the
\* breakpoints of the render that set the interval.
Tick ==
    /\ Quiet
    /\ timer.live
    /\ LET prev == ui.currentStep
       IN  IF prev >= Len(timer.executionTrace.steps) - 1
           THEN /\ UNCHANGED ui
                /\ UNCHANGED watch
           ELSE LET nextStep == timer.executionTrace.steps[(prev + 1) + 1]
                    stop == nextStep.lineNumber \in timer.breakpoints
                IN  /\ ui' = [ui EXCEPT !.currentStep = prev + 1,
                                        !.isPlaying = IF stop THEN FALSE ELSE @]
                    /\ watch' = [held |-> watch.held \/ stop]
    /\ UNCHANGED <<pc, callVars, simVars, localVars, evaluated, result, error,
                   mutated, probe, sessionVars, timer>>

\* The effects of a render that a timer or a promise caused.
RunEffects ==
    /\ Quiet
    /\ EffectsDue
    /\ LET r == EffectRound(ui, timer)
       IN  ui' = r.ui /\ timer' = r.timer
    /\ UNCHANGED watch
    /\ UNCHANGED <<pc, callVars, simVars, localVars, evaluated, result, error,
                   mutated, probe, sessionVars>>

UINext ==
    \/ \E lang \in Languages : handleLanguageChange(lang)
    \/ \E c \in UICodes : EditCode(c)
    \/ handleVisualize
    \/ RunMatch
    \/ RunEvaluate
    \/ RunInitArray
    \/ RunInitN
    \/ RunCopy
    \/ OuterLoop
    \/ InnerLoop
    \/ Compare
    \/ SwapAnnounce
    \/ SwapDo
    \/ Finish
    \/ PrintOutput
    \/ Resolve
    \/ Install
    \/ ShowError
    \/ \E direction \in {"forward", "backward"} : handleStep(direction)
    \/ TogglePlay
    \/ \E lineNumber \in BreakLines : toggleBreakpoint(lineNumber)
    \/ Tick
    \/ RunEffects

UISpec == UIInit /\ [][UINext]_vars

(***************************************************************************)
(* Properties.                                                             *)
(***************************************************************************)
\* The variables of a step, and the elements of an array value.
StepVars(step) == heap[step.variables].fields

ElemsOf(v) == heap[v.n].elems

Kinds(steps) == [k \in 1..Len(steps) |-> steps[k].description.kind]

CountKind(steps, kind) ==
    Cardinality({k \in 1..Len(steps) : steps[k].description.kind = kind})

\* The source's array literal is '[n1, n2, ...]' with number elements only.
NumericLiteral(expr) ==
    /\ expr.bracket
    /\ expr.idx = -1
    /\ \A k \in 1..Len(expr.elems) : expr.elems[k].t = "num"

NonDecreasing(es) ==
    \A a, b \in 1..Len(es) :
        a < b => es[a].t = "num" /\ es[b].t = "num" /\ es[a].n <= es[b].n

Occurrences(es, v) == Cardinality({k \in 1..Len(es) : es[k] = v})

IsPermutation(a, b) ==
    /\ Len(a) = Len(b)
    /\ \A k \in 1..Len(a) : Occurrences(a, a[k]) = Occurrences(b, a[k])

\* The run is over and the caller has not written to the steps.
Returned == pc = "returned" /\ mutated = 0

DefaultSorted ==
    <<Num(11), Num(12), Num(22), Num(25), Num(34), Num(64), Num(90)>>

\* C1: for a source whose array literal is a sequence of numbers, the array
\* bound to sortedArray in the "Sorting complete" step is non-decreasing and
\* a permutation of the literal's elements; the default example ends as
\* [11, 12, 22, 25, 34, 64, 90].
C1_SortedPermutation ==
    \A k \in 1..Len(trace) :
        (/\ mutated = 0
         /\ trace[k].description.kind = "complete"
         /\ NumericLiteral(arrMatch.e))
        => LET sorted == ElemsOf(StepVars(trace[k])["sortedArray"])
           IN  /\ NonDecreasing(sorted)
               /\ IsPermutation(sorted, arrMatch.e.elems)
               /\ arrMatch.e = DefaultExpr => sorted = DefaultSorted
               /\ \A m \in (k + 1)..Len(trace) :
                      trace[m].description.kind = "print"

C1_Witness ==
    /\ Returned
    /\ arrMatch.e = DefaultExpr
    /\ Len(trace) >= 2
    /\ trace[Len(trace) - 1].description.kind = "complete"
    /\ ElemsOf(StepVars(trace[Len(trace) - 1])["sortedArray"]) = DefaultSorted

\* Sum of (len - i - 1) over i in 0..len-1.
RECURSIVE InnerTotal(_, _)
InnerTotal(len, i0) ==
    IF i0 >= len THEN 0 ELSE (len - i0 - 1) + InnerTotal(len, i0 + 1)

\* C2: a successful run on an array of length n with k swaps emits
\* 2 + n + 2*S + 2k + 2 steps, S the sum of (n-i-1) for i in 0..n-1: two
\* init steps, n outer steps, S inner steps, S comparisons, two steps per
\* swap, and the two final steps.
C2_StepCount ==
    pc \in {"delay", "returned"}
    => LET S == InnerTotal(n.n, 0)
       IN  /\ Len(trace) = 2 + n.n + 2 * S + 2 * swaps + 2
           /\ CountKind(trace, "initArray") = 1
           /\ CountKind(trace, "initN") = 1
           /\ CountKind(trace, "outer") = n.n
           /\ CountKind(trace, "inner") = S
           /\ CountKind(trace, "compare") = S
           /\ CountKind(trace, "conditionTrue") = swaps
           /\ CountKind(trace, "arrayNow") = swaps
           /\ CountKind(trace, "complete") = 1
           /\ CountKind(trace, "print") = 1

C2_Witness ==
    /\ pc = "returned"
    /\ arrMatch.e = DefaultExpr
    /\ n = Num(Len(DefaultExpr.elems))
    /\ swaps > 0
    /\ Len(trace) = 2 + n.n + 2 * InnerTotal(n.n, 0) + 2 * swaps + 2
    /\ CountKind(trace, "compare") > CountKind(trace, "conditionTrue")

\* C3 as stated: for an input array of length 0 or 1 the outer and inner
\* loops run zero times, and the trace is exactly the four steps array init,
\* n init, sorting complete and output.
C3_FourStepsForShortArrays ==
    (arrValue.t = "ref" /\ n.t = "num" /\ n.n <= 1)
    => /\ pc \notin {"outer", "inner", "compare", "swap", "swapped"}
       /\ pc \in {"delay", "returned"}
          => Kinds(trace) = <<"initArray", "initN", "complete", "print">>

\* C3, amended: for an input array of length 0 no loop runs and the trace is
\* exactly the four non-loop steps; for length 1 the outer loop is entered
\* once (one outer-loop step, i = 0) and the inner loop never, so the trace
\* is those four steps with one outer-loop step after the n-init step, and
\* no inner-loop, comparison or swap step.
C3_NoInnerLoopForShortArrays ==
    (arrValue.t = "ref" /\ n.t = "num" /\ n.n <= 1)
    => /\ pc \notin {"inner", "compare", "swap", "swapped"}
       /\ n.n = 0 => pc # "outer"
       /\ swaps = 0
       /\ pc \in {"delay", "returned"}
          => Kinds(trace) =
                IF n.n = 0
                THEN <<"initArray", "initN", "complete", "print">>
                ELSE <<"initArray", "initN", "outer", "complete", "print">>
       /\ \A k \in 1..Len(trace) :
              trace[k].description.kind = "outer"
              => trace[k].description.vals = <<Num(0)>>

C3_Witness ==
    /\ Returned
    /\ arrValue.t = "ref"
    /\ n = Num(1)
    /\ Len(arrMatch.e.elems) = 1
    /\ Kinds(result.steps) = <<"initArray", "initN", "outer", "complete", "print">>

\* C4: with the language selector 'python' the call fails with an error
\* whatever the source text, returns no steps, and no simulator is ever
\* constructed or run.
C4_PythonRejected ==
    (pc # "idle" /\ language = "python")
    => /\ pc = "failed"
       /\ error = [kind |-> "unsupportedLanguage", cause |-> "none"]
       /\ ~result.present
       /\ simulators = 0
       /\ trace = <<>>
       /\ ~evaluated.called

C4_Witness ==
    /\ pc = "failed"
    /\ language = "python"
    /\ code = JSCode("myArray", DefaultExpr)
    /\ error.kind = "unsupportedLanguage"
    /\ simulators = 0

\* C5: for the supported language, a source that lacks the token
\* 'bubbleSort' or the token 'arr.length' makes the call fail with an error
\* before any simulation: no simulator is constructed and no step returned.
C5_ShapeCheckRejects ==
    (/\ pc # "idle"
     /\ language = "javascript"
     /\ \/ \A k \in 1..Len(code) : Tok("bubbleSort") \notin code[k]
        \/ \A k \in 1..Len(code) : Tok("arr.length") \notin code[k])
    => /\ pc = "failed"
       /\ error = [kind |-> "unsupportedCode", cause |-> "none"]
       /\ ~result.present
       /\ simulators = 0
       /\ trace = <<>>
       /\ ~evaluated.called

C5_Witness ==
    /\ pc = "failed"
    /\ language = "javascript"
    /\ code = Without(JSCode("myArray", DefaultExpr), Tok("arr.length"))
    /\ \E k \in 1..Len(code) : Tok("bubbleSort") \in code[k]
    /\ error.kind = "unsupportedCode"
    /\ simulators = 0

\* The source has no statement '<let|var|const> <name> = [<elements>]'.
NoDeclaration(c) == \A k \in 1..Len(c) : \A fr \in c[k] : fr.f # "decl"

HasToken(c, str) == \E k \in 1..Len(c) : Tok(str) \in c[k]

\* A complete trace: the two init steps first, the "Sorting complete" step
\* and the output step, with its captured output, last.
CompleteTrace(steps) ==
    /\ Len(steps) >= 4
    /\ steps[1].description.kind = "initArray"
    /\ steps[2].description.kind = "initN"
    /\ steps[Len(steps) - 1].description.kind = "complete"
    /\ steps[Len(steps)].description.kind = "print"
    /\ steps[Len(steps)].output.present

\* C6: when the source passes the shape check but has no array
\* initialization statement, the call fails with one descriptive error and
\* no step is recorded or returned; and a call ends in exactly one of two
\* outcomes, a complete trace or an error, never a partial trace.
C6_NoArrayNoPartialTrace ==
    /\ (/\ language = "javascript"
        /\ HasToken(code, "bubbleSort")
        /\ HasToken(code, "arr.length")
        /\ NoDeclaration(code)
        /\ pc \notin {"idle", "run"})
       => /\ pc = "failed"
          /\ error = [kind |-> "simulationFailed",
                      cause |-> "noArrayInitialization"]
          /\ trace = <<>>
          /\ ~evaluated.called
    /\ result.present
       => /\ pc = "returned"
          /\ error = NoError
          /\ result.steps = trace
          /\ CompleteTrace(result.steps)
    /\ error # NoError => pc = "failed" /\ ~result.present
    /\ pc = "returned" => result.present
    /\ pc = "failed" => error # NoError

C6_Witness ==
    /\ pc = "failed"
    /\ HasToken(code, "bubbleSort")
    /\ HasToken(code, "arr.length")
    /\ NoDeclaration(code)
    /\ error.cause = "noArrayInitialization"
    /\ simulators = 1
    /\ trace = <<>>

\* C7: the evaluator never propagates an exception: when dynamic evaluation
\* fails and the array-literal fallback fails too, it logs the failure and
\* returns null.
C7_EvaluateNeverThrows ==
    evaluated.called
    => /\ ~evaluated.threw
       /\ (/\ ~(dynamicOK /\ DynamicEval(arrMatch.e, EmptyFields).ok)
           /\ ~JSONParse(arrMatch.e).ok)
          => evaluated.logged /\ evaluated.v = RichNull

\* The evaluator failed, or gave no value, or gave a number: nothing that
\* has the elements of an array.
NoArrayValue ==
    /\ evaluated.called
    /\ evaluated.threw \/ evaluated.v.t \in {"undef", "null", "num"}

\* C8: when the matched literal does not evaluate to an array value (the
\* evaluator fails, or yields no value or a number), the call ends with one
\* error and returns no steps, also when the simulator had recorded steps
\* before it failed.
C8_NoArrayValueFails ==
    NoArrayValue
    => /\ ~result.present
       /\ pc \in {"initArray", "initN", "copy", "failed"}
       /\ pc = "failed"
          => /\ error.kind = "simulationFailed"
             /\ error.cause \in {"syntaxError", "typeError"}
       /\ evaluated.v.t = "num" /\ pc = "failed" => Len(trace) = 2
       /\ evaluated.v.t # "num" => pc = "failed" /\ trace = <<>>

C8_Witness ==
    /\ pc = "failed"
    /\ evaluated.called
    /\ evaluated.v.t = "num"
    /\ Len(trace) = 2
    /\ ~result.present
    /\ error = [kind |-> "simulationFailed", cause |-> "typeError"]

(***************************************************************************)
(* Reading a printed array back as a sequence of numbers: '[', numbers     *)
(* (an optional '-' and digits) separated by ',' and optional spaces, ']'. *)
(***************************************************************************)
RECURSIVE SplitAtCommas(_)
SplitAtCommas(cs) ==
    LET commas == {k \in 1..Len(cs) : cs[k] = ","}
    IN  IF commas = {} THEN <<cs>>
        ELSE <<SubSeq(cs, 1, Min(commas) - 1)>>
             \o SplitAtCommas(SubSeq(cs, Min(commas) + 1, Len(cs)))

RECURSIVE Trim(_)
Trim(cs) ==
    IF cs = <<>> THEN cs
    ELSE IF cs[1] = " " THEN Trim(Tail(cs))
    ELSE IF cs[Len(cs)] = " " THEN Trim(SubSeq(cs, 1, Len(cs) - 1))
    ELSE cs

ParseNumber(cs) ==
    LET neg    == cs # <<>> /\ cs[1] = "-"
        digits == IF neg THEN Tail(cs) ELSE cs
        ok     == digits # <<>> /\ \A k \in 1..Len(digits) : IsDigit(digits[k])
    IN  [ok |-> ok,
         n  |-> IF ~ok THEN 0
                ELSE IF neg THEN 0 - DigitsValue(digits) ELSE DigitsValue(digits)]

ParseNumberList(text) ==
    IF Len(text) < 2 \/ text[1] # "[" \/ text[Len(text)] # "]"
    THEN [ok |-> FALSE, nums |-> <<>>]
    ELSE LET inner  == Trim(SubSeq(text, 2, Len(text) - 1))
             pieces == IF inner = <<>> THEN <<>> ELSE SplitAtCommas(inner)
             parsed == [k \in 1..Len(pieces) |-> ParseNumber(Trim(pieces[k]))]
         IN  IF \A k \in 1..Len(parsed) : parsed[k].ok
             THEN [ok |-> TRUE, nums |-> [k \in 1..Len(parsed) |-> parsed[k].n]]
             ELSE [ok |-> FALSE, nums |-> <<>>]

\* The last step's output is one string that reads back as the numbers of
\* the array bound to sortedArray in the step before it.
OutputReadsBackAsSortedArray ==
    /\ Len(trace) >= 2
    /\ trace[Len(trace) - 1].description.kind = "complete"
    /\ trace[Len(trace)].output.present
    /\ Len(trace[Len(trace)].output.lines) = 1
    /\ LET sorted == ElemsOf(StepVars(trace[Len(trace) - 1])["sortedArray"])
           back   == ParseNumberList(trace[Len(trace)].output.lines[1])
       IN  /\ back.ok
           /\ Len(back.nums) = Len(sorted)
           /\ \A k \in 1..Len(sorted) : sorted[k] = Num(back.nums[k])

\* C9 as stated: in every successful trace, the final step's output is a
\* single string that, parsed back into a number sequence, equals element
\* for element the array bound to sortedArray in the preceding step.
C9_OutputRoundTripAlways == Returned => OutputReadsBackAsSortedArray

\* C9, amended: in every successful trace of a source whose array literal is
\* a sequence of numbers, the final step's output is a single string that,
\* parsed back into a number sequence, equals element for element the array
\* bound to sortedArray in the preceding "Sorting complete" step.
C9_OutputRoundTripNumeric ==
    (Returned /\ NumericLiteral(arrMatch.e)) => OutputReadsBackAsSortedArray

C9_Witness ==
    /\ Returned
    /\ NumericLiteral(arrMatch.e)
    /\ Len(arrMatch.e.elems) = MaxLen
    /\ swaps > 0
    /\ \E k \in 1..MaxLen : arrMatch.e.elems[k].n < 0
    /\ \E k \in 1..MaxLen : arrMatch.e.elems[k].n > 9
    /\ OutputReadsBackAsSortedArray

(***************************************************************************)
(* Snapshot independence.                                                  *)
(***************************************************************************)
\* What step k shows: its variables with the arrays' elements in place of
\* the references.
Content(k) ==
    LET f == heap[trace[k].variables].fields
    IN  [fields |-> [nm \in AllNames |-> IF f[nm].t = "ref" THEN Ref(0) ELSE f[nm]],
         arrays |-> [nm \in AllNames |->
                        IF f[nm].t = "ref" THEN heap[f[nm].n].elems ELSE <<>>]]

\* The arrays the object at address m refers to.
ArraysOf(m) ==
    IF m = 0 THEN {}
    ELSE {heap[m].fields[nm].n : nm \in {x \in AllNames : heap[m].fields[x].t = "ref"}}

\* How many array references the snapshots of steps 1..k hold.
RECURSIVE ArrayRefCount(_)
ArrayRefCount(k) ==
    IF k = 0 THEN 0
    ELSE Cardinality({nm \in AllNames : StepVars(trace[k])[nm].t = "ref"})
         + ArrayRefCount(k - 1)

\* No snapshot is, or shares an array with, the scope, the working array or
\* another snapshot: the snapshots are as many objects as there are steps,
\* their array references go to as many arrays as there are references, and
\* none of these is the scope, an array of the scope, or the working array.
NoSharing ==
    LET maps   == {trace[k].variables : k \in 1..Len(trace)}
        arrays == UNION {ArraysOf(m) : m \in maps}
    IN  /\ Cardinality(maps) = Len(trace)
        /\ Cardinality(arrays) = ArrayRefCount(Len(trace))
        /\ variables \notin maps
        /\ arrays \cap (ArraysOf(variables) \cup {arr}) = {}

\* C10: no step's snapshot shares mutable structure with the scope, the
\* working array or another step's snapshot: every step of the program
\* leaves every emitted snapshot as it was (later scope updates and swaps
\* included), and a caller's write to one returned step changes no other
\* step's variables.
C10_SnapshotIndependence ==
    [][/\ NoSharing'
       /\ \A k \in 1..Len(trace) :
              (k <= Len(trace') /\ mutated' # k) => Content(k)' = Content(k)]_vars

C10_Witness ==
    /\ pc = "returned"
    /\ swaps > 0
    /\ mutated # 0
    /\ mutated < Len(trace)
    /\ \E nm \in AllNames :
          /\ StepVars(trace[mutated])[nm].t = "ref"
          /\ ElemsOf(StepVars(trace[mutated])[nm])[1] = CallerValue
          /\ StepVars(trace[mutated + 1])[nm].t = "ref"
          /\ ElemsOf(StepVars(trace[mutated + 1])[nm])[1] # CallerValue

(***************************************************************************)
(* The steps' fields.                                                      *)
(***************************************************************************)
\* C12: in every step of every trace the output field is either the
\* no-output marker or a non-empty sequence of strings, never a present but
\* empty sequence; and captured output is not repeated: the buffer is empty
\* after every step, so the one step that carries output is the printing
\* step, with the one line printed for it, and no other step carries any.
C12_OutputNullOrNonEmpty ==
    /\ \A k \in 1..Len(trace) :
           /\ trace[k].output.present => Len(trace[k].output.lines) > 0
           /\ ~trace[k].output.present => trace[k].output = NoOutput
           /\ trace[k].output.present
              => /\ trace[k].description.kind = "print"
                 /\ trace[k].output.lines = <<Render(heap[arr].elems)>>
           /\ \A m \in 1..Len(trace) :
                  (m # k /\ trace[k].output.present) => ~trace[m].output.present
    /\ output = <<>>

C12_Witness ==
    /\ Returned
    /\ Len(trace) > 4
    /\ trace[Len(trace)].output.present
    /\ Len(trace[Len(trace)].output.lines) = 1
    /\ \A k \in 1..(Len(trace) - 1) : trace[k].output = NoOutput

\* The text run() searches the source for to locate a step of a kind.
Searched(kind) ==
    CASE kind = "initArray" -> arrMatch
      [] kind = "initN" -> Tok("n =")
      [] kind = "outer" -> Tok("for (let i")
      [] kind = "inner" -> Tok("for (let j")
      [] kind = "compare" -> Tok("if (arr[j]")
      [] kind \in {"conditionTrue", "arrayNow"} -> SwapLhs(arrMatch.s)
      [] kind = "complete" -> Tok("sortedArray =")
      [] kind = "print" -> Tok("console.log")

\* The lines of the source that contain a fragment.
LinesWith(frag) == {k \in 1..Len(codeLines) : frag \in codeLines[k]}

\* C13: in every trace, every step's lineNumber is the 1-based number of a
\* line that exists in the source, between 1 and the number of source
\* lines: the first line that contains the text searched for the step, or
\* line 1 (the locator's fallback) when no line contains it.
C13_LineNumberInSource ==
    \A k \in 1..Len(trace) :
        LET ln  == trace[k].lineNumber
            hit == LinesWith(Searched(trace[k].description.kind))
        IN  /\ ln >= 1
            /\ ln <= Len(codeLines)
            /\ hit # {} => ln = Min(hit)
            /\ hit = {} => ln = 1

C13_Witness ==
    /\ Returned
    /\ \E k \in 1..Len(trace) :
          /\ trace[k].description.kind = "conditionTrue"
          /\ LinesWith(SwapLhs(arrMatch.s)) = {}
          /\ trace[k].lineNumber = 1
    /\ trace[Len(trace)].lineNumber = Len(codeLines)
    /\ trace[1].lineNumber = 13

\* str occurs in line, character by character.
IsSubstring(str, line) ==
    \E a \in 0..(Len(line) - Len(str)) : SubSeq(line, a + 1, a + Len(str)) = str

\* C14: for every list of source lines, search substring and 0-based start
\* index, findLine returns the 1-based number of the first line at or after
\* the start index that contains the substring (never a matching line
\* before the start index), and startIndex + 1 when no such line exists.
C14_FindLineContract ==
    probe.called
    => LET ls      == probe.codeLines
           matches == {k \in 0..(Len(ls) - 1) :
                          k >= probe.startLine
                          /\ IsSubstring(probe.searchString, ls[k + 1])}
       IN  /\ matches # {}
              => /\ probe.result - 1 \in matches
                 /\ \A k \in matches : probe.result - 1 <= k
           /\ matches = {} => probe.result = probe.startLine + 1

C14_Witness ==
    /\ probe.called
    /\ probe.startLine = 1
    /\ Len(probe.codeLines) = 2
    /\ probe.searchString # <<>>
    /\ IsSubstring(probe.searchString, probe.codeLines[1])
    /\ IsSubstring(probe.searchString, probe.codeLines[2])
    /\ probe.codeLines[1] # probe.codeLines[2]
    /\ probe.result = 2

(***************************************************************************)
(* The order of the steps of an inner iteration.                           *)
(***************************************************************************)
KindAt(k) == trace[k].description.kind

\* Every inner-loop step but a last one is followed by the comparison step
\* of its j, every comparison step follows an inner-loop step, and a
\* "condition true" step follows a comparison step.
InnerThenCompare ==
    \A k \in 1..Len(trace) :
        /\ KindAt(k) = "inner"
           => IF k = Len(trace) THEN pc = "compare"
              ELSE /\ KindAt(k + 1) = "compare"
                   /\ trace[k + 1].description.vals[1] = trace[k].description.vals[1]
                   /\ trace[k + 1].description.vals[3]
                         = Num(trace[k].description.vals[1].n + 1)
        /\ KindAt(k) = "compare" => k > 1 /\ KindAt(k - 1) = "inner"
        /\ KindAt(k) = "conditionTrue" => k > 1 /\ KindAt(k - 1) = "compare"

\* C15: each inner-loop step (for indices i, j) is immediately followed by
\* a comparison step for the adjacent pair at j and j+1, on every inner
\* iteration whatever the outcome and before any swap step of the
\* iteration; the values the comparison reports are the working array's
\* elements at j and j+1 at the moment it is emitted.
C15_InnerThenComparison ==
    [][/\ InnerThenCompare'
       /\ (Len(trace) > 0 /\ KindAt(Len(trace)) = "inner" /\ trace' # trace)
          => /\ Len(trace') = Len(trace) + 1
             /\ trace'[Len(trace')].description
                   = Describe("compare", arrMatch.s,
                              <<Num(j), heap[arr].elems[j + 1],
                                Num(j + 1), heap[arr].elems[j + 2]>>, <<>>)
             /\ heap'[arr].elems = heap[arr].elems]_vars

C15_Witness ==
    /\ Returned
    /\ swaps > 0
    /\ \E k \in 1..(Len(trace) - 2) :
          /\ KindAt(k) = "inner"
          /\ KindAt(k + 1) = "compare"
          /\ KindAt(k + 2) = "inner"
    /\ \E k \in 1..(Len(trace) - 2) :
          /\ KindAt(k) = "inner"
          /\ KindAt(k + 1) = "compare"
          /\ KindAt(k + 2) = "conditionTrue"

(***************************************************************************)
(* The swap steps.                                                         *)
(***************************************************************************)
\* What step k's snapshot binds the array's name to: an array with its
\* elements, or something else.
ArraySnapshot(k) ==
    LET v == StepVars(trace[k])[arrMatch.s]
    IN  IF v.t = "ref" /\ heap[v.n].kind = "arr"
        THEN [isArray |-> TRUE, elems |-> heap[v.n].elems]
        ELSE [isArray |-> FALSE, elems |-> <<>>]

\* Left is strictly greater than right: two numbers by value; the strings
\* of the inputs are all 'a', equal to each other and not comparable with a
\* number.
StrictlyGreater(v1, v2) == v1.t = "num" /\ v2.t = "num" /\ v1.n > v2.n

\* b is a with the elements at the 0-based indices j0 and j0 + 1 exchanged
\* and every other element unchanged.
Exchanged(a, b, j0) ==
    /\ Len(a) = Len(b)
    /\ j0 + 2 <= Len(a)
    /\ b[j0 + 1] = a[j0 + 2]
    /\ b[j0 + 2] = a[j0 + 1]
    /\ \A m \in 1..Len(a) : m \notin {j0 + 1, j0 + 2} => b[m] = a[m]

\* Swap steps follow the comparison step k.
SwapFollows(k) ==
    IF k < Len(trace) THEN KindAt(k + 1) = "conditionTrue" ELSE pc = "swap"

\* C16 as stated: a comparison step is followed by swap steps if and only
\* if the left element is strictly greater than the right one (equal
\* elements produce none); then exactly two consecutive steps follow, both
\* at the same line number, the first with the array snapshot still in its
\* pre-swap state and the second with the array snapshot showing elements j
\* and j+1 exchanged and all other elements unchanged.
C16_SwapStepsIffGreater ==
    mutated = 0
    => \A k \in 1..Len(trace) :
          /\ KindAt(k) = "arrayNow" => k > 1 /\ KindAt(k - 1) = "conditionTrue"
          /\ KindAt(k) = "compare"
             => LET d  == trace[k].description.vals
                    j0 == d[1].n
                IN  /\ SwapFollows(k) <=> StrictlyGreater(d[2], d[4])
                    /\ d[2] = d[4] => ~SwapFollows(k)
                    /\ (SwapFollows(k) /\ k + 1 = Len(trace)) => pc = "swapped"
                    /\ (SwapFollows(k) /\ k + 1 <= Len(trace))
                       => /\ ArraySnapshot(k + 1).isArray
                          /\ ArraySnapshot(k + 1).elems[j0 + 1] = d[2]
                          /\ ArraySnapshot(k + 1).elems[j0 + 2] = d[4]
                    /\ (SwapFollows(k) /\ k + 2 <= Len(trace))
                       => /\ KindAt(k + 2) = "arrayNow"
                          /\ trace[k + 2].lineNumber = trace[k + 1].lineNumber
                          /\ ArraySnapshot(k + 2).isArray
                          /\ Exchanged(ArraySnapshot(k + 1).elems,
                                       ArraySnapshot(k + 2).elems, j0)
                          /\ k + 3 <= Len(trace)
                             => KindAt(k + 3) \notin {"conditionTrue", "arrayNow"}

(***************************************************************************)
(* The snapshots along a trace.                                            *)
(***************************************************************************)
\* The names step k's snapshot has.
NamesAt(k) == {nm \in AllNames : StepVars(trace[k])[nm] # Absent}

\* C17 as stated: within one (returned) trace, the set of variable names in
\* a step's snapshot is a subset of the set of names in every later step's
\* snapshot: a name, once it appears, is never removed.
C17_NamesNeverRemoved ==
    Returned
    => \A k \in 1..Len(trace) : \A m \in k..Len(trace) : NamesAt(k) \subseteq NamesAt(m)

\* The working array: the copy run() sorts once it is made, the evaluated
\* array before.
WorkingArray == IF arr # 0 THEN heap[arr].elems ELSE heap[arrValue.n].elems

\* C18 as stated, for a literal that evaluates to an array: in every step of
\* a trace the array variable's snapshot equals the simulator's working
\* array at the moment of emission and is a permutation of the input array,
\* and the array snapshots of two consecutive steps are either equal or
\* differ by the exchange of exactly one pair of adjacent elements.
C18_ArraySnapshotIsWorkingArray ==
    (evaluated.called /\ evaluated.v.t = "arr" /\ mutated = 0)
    => /\ Len(trace) > 0
          => /\ ArraySnapshot(Len(trace)).isArray
             /\ ArraySnapshot(Len(trace)).elems = WorkingArray
       /\ \A k \in 1..Len(trace) :
              /\ ArraySnapshot(k).isArray
              /\ IsPermutation(ArraySnapshot(k).elems, evaluated.v.elems)
              /\ k < Len(trace)
                 => \/ ArraySnapshot(k + 1).elems = ArraySnapshot(k).elems
                    \/ \E j0 \in 0..(Len(ArraySnapshot(k).elems) - 2) :
                          Exchanged(ArraySnapshot(k).elems,
                                    ArraySnapshot(k + 1).elems, j0)

(***************************************************************************)
(* Determinism across calls.                                               *)
(***************************************************************************)
\* The heap addresses the steps of a waiting call reach.
Reach(steps) ==
    UNION {{steps[k].variables} \cup ArraysOf(steps[k].variables) :
              k \in 1..Len(steps)}

SameOutcome(a, b) == a.ok = b.ok /\ a.steps = b.steps /\ a.error = b.error

\* C11: the returned step sequence is a function of the source text (and
\* language) alone: two calls with the same source end alike, step for
\* step and field for field, whatever calls ran before them or waited
\* while they ran; and every call has a scope, a trace and an output buffer
\* of its own: the steps of calls that wait share no object with each
\* other or with the simulator that runs.
C11_SameSourceSameTrace ==
    /\ \A a, b \in 1..Len(settled) :
           (settled[a].code = settled[b].code
            /\ settled[a].language = settled[b].language)
           => SameOutcome(settled[a], settled[b])
    /\ \A a \in 1..Len(pending) :
           /\ \A b \in 1..Len(settled) :
                  (pending[a].code = settled[b].code
                   /\ pending[a].language = settled[b].language)
                  => /\ settled[b].ok
                     /\ Shown(heap, pending[a].steps) = settled[b].steps
           /\ \A b \in 1..Len(pending) :
                  /\ pending[a].code = pending[b].code
                     => Shown(heap, pending[a].steps) = Shown(heap, pending[b].steps)
                  /\ a # b => Reach(pending[a].steps) \cap Reach(pending[b].steps) = {}
           /\ pc \notin {"idle", "failed"}
              => Reach(pending[a].steps)
                    \cap (Reach(trace) \cup {variables, arr} \cup ArraysOf(variables)) = {}

C11_Witness ==
    /\ Len(settled) = 3
    /\ settled[1].ok
    /\ settled[1].overlapped
    /\ settled[3].overlapped
    /\ settled[1].code = settled[3].code
    /\ settled[2].code # settled[1].code
    /\ settled[2].ok
    /\ Len(settled[1].steps) = 10
    /\ settled[3].steps = settled[1].steps

LastStep(u) == Len(u.executionTrace.steps) - 1

\* C19: in every step of the page, a trace that is loaded afterwards has the
\* current step index between 0 and its length - 1, whichever of step
\* forward, step backward, play/pause, timer tick, breakpoint toggle,
\* Visualize, language change, trace installation or effect run the step
\* is; and when the trace loaded afterwards is not the one loaded before,
\* the index is 0.
C19_StepIndexWithinTrace ==
    [][/\ ui'.executionTrace.present
          => /\ ui'.currentStep >= 0
             /\ ui'.currentStep <= LastStep(ui')
       /\ (ui'.executionTrace.present /\ ui'.executionTrace # ui.executionTrace)
          => ui'.currentStep = 0]_vars

\* A second trace has been installed after the first was played, and
\* playback has arrived at its last step with the interval still set.
C19_Witness ==
    /\ ui.executionTrace.present
    /\ ui.executionTrace.id > 1
    /\ ui.currentStep = LastStep(ui)
    /\ ui.currentStep > 0
    /\ timer.live

\* A tick of the interval leaves the index where a breakpoint holds it.
HeldByBreakpoint ==
    (Tick /\ watch.held) => ui'.currentStep = ui.currentStep

\* At the last step a tick leaves the index, and once the effects have run
\* playing is false.
StopsAtEnd ==
    /\ (Tick /\ ui.currentStep = LastStep(ui)) => ui'.currentStep = ui.currentStep
    /\ (ui'.executionTrace.present /\ ui'.currentStep = LastStep(ui') /\ ~EffectsDue')
          => ~ui'.isPlaying

\* C20: once a tick of the interval has advanced playback onto a step whose
\* lineNumber is in the breakpoint set, no tick advances the current step
\* until the user presses play or steps manually; and when autoplay has
\* reached the last step, playing becomes false and the index stays at the
\* last step.
C20_PausesAtBreakpointAndEnd ==
    [][HeldByBreakpoint /\ StopsAtEnd]_vars

\* A call of generateExecutionTrace has started and its outcome is not yet
\* in the state of the page.
InFlight == pc # "idle"

\* The arguments of the last call are the code and the language of the page.
FromCurrentText == ui.code = code /\ ui.language = language

\* C21: in every step of the page, afterwards (1) a generation is in flight
\* only while isLoading disables the Visualize button, so that no second
\* one can start; (2) while one is in flight, and (3) while a trace is
\* displayed, which is the trace of the last generation, the code and the
\* language of the page are the arguments that generation was started with;
\* and (4) a step that changes the code or the language while a trace is
\* displayed leaves no trace displayed.
C21_TraceMatchesCurrentCode ==
    [][/\ InFlight' => ui'.isLoading
       /\ InFlight' => (FromCurrentText' /\ ~ui'.executionTrace.present)
       /\ ui'.executionTrace.present
             => (FromCurrentText' /\ ui'.executionTrace.id = simulators')
       /\ (/\ ui.executionTrace.present
           /\ (ui'.code # ui.code \/ ui'.language # ui.language))
             => ~ui'.executionTrace.present]_vars

\* A second trace is displayed, generated from an edited text after the
\* first trace was cleared by a language change.
C21_Witness ==
    /\ ui.executionTrace.present
    /\ ui.executionTrace.id > 1
    /\ ui.code # defaultCode(ui.language)
    /\ ui.code = code
    /\ ~ui.isLoading
    /\ pc = "idle"

====
